---- MODULE Spec2Model ----
(***************************************************************************)
(* A model of web3/main.py: the Web3 facade (module composition, the       *)
(* provider / middleware_onion / ens / pm properties, isConnected) and the *)
(* hashing utilities keccak and solidityKeccak.                            *)
(*                                                                         *)
(* Python objects are records.  A call's outcome is a record               *)
(*   [kind |-> "return" | "raise", val |-> ...]                            *)
(* where a raised exception carries the exception class name in val.       *)
(* Collaborators that main.py only imports (Module.attach, RequestManager, *)
(* ENS, the eth_utils / web3._utils conversion helpers) are modelled by    *)
(* the contract the specification gives them.                              *)
(***************************************************************************)
EXTENDS Integers, Sequences, FiniteSets, TLC

VARIABLES
    w3,        \* the facade object; its attrs hold manager, _ens and what attach bound
    built,     \* "pending" before __init__ has run, "live" after, "failed" if it raised
    call,      \* the operation last invoked (or, while pending, about to be) and its arguments
    result,    \* what that operation returned or raised, with its recorded effects
    hist       \* history: what the callers did (last provider / resolver written, activation)

vars == <<w3, built, call, result, hist>>

(***************************************************************************)
(* Bounds of the model.                                                    *)
(***************************************************************************)
MaxModules == 2
MaxOnion == 2
MaxLen == 2

(***************************************************************************)
(* Generic helpers.                                                        *)
(***************************************************************************)
EmptyDict == [n \in {} |-> 0]

SeqsUpTo(S, n) == UNION {[1..k -> S] : k \in 0..n}

Return(v) == [kind |-> "return", val |-> v]

Raise(exc) == [kind |-> "raise", val |-> exc]

NoResult == [kind |-> "none", val |-> "none"]

None == [kind |-> "None", v |-> <<>>]

(***************************************************************************)
(* Objects and attributes.  An object is [kind, cls, attrs]: attrs is its  *)
(* instance dictionary.  The facade is an object of class Web3; the        *)
(* properties of class Web3 stand in front of its instance dictionary.     *)
(***************************************************************************)
Object(kind, cls, attrs) == [kind |-> kind, cls |-> cls, attrs |-> attrs]

DictSet(dict, name, value) ==
    [n \in (DOMAIN dict) \cup {name} |-> IF n = name THEN value ELSE dict[n]]

\* The properties class Web3 defines, and those of them that have a setter.
Properties == {"middleware_onion", "provider", "ens", "pm"}

SettableProperties == {"provider", "ens"}

\* What every instance has from type object.  The three layout attributes
\* are data descriptors: they answer in front of the instance dictionary and
\* decide what may be assigned to them.  The rest are found through the
\* class unless the instance dictionary holds the name.
ObjectDescriptors == {"__dict__", "__class__", "__weakref__"}

ObjectAttributes ==
    {"__delattr__", "__dir__", "__doc__", "__eq__", "__format__", "__ge__",
     "__getattribute__", "__getstate__", "__gt__", "__hash__", "__init__",
     "__init_subclass__", "__le__", "__lt__", "__module__", "__ne__", "__new__",
     "__reduce__", "__reduce_ex__", "__repr__", "__setattr__", "__sizeof__",
     "__str__", "__subclasshook__"}

\* What class Web3 defines besides its properties (lines 101-127 and its
\* methods), with what it has from object.  An instance finds them through
\* its class unless its own dictionary holds the name.
ClassAttributes ==
    {"HTTPProvider", "IPCProvider", "EthereumTesterProvider", "WebsocketProvider",
     "RequestManager", "Iban", "toBytes", "toInt", "toHex", "toText", "toJSON",
     "toWei", "fromWei", "isAddress", "isChecksumAddress", "toChecksumAddress",
     "keccak", "solidityKeccak", "isConnected",
     "enable_unstable_package_management_api"}
    \cup ObjectAttributes

\* The function, method, class or value that a class binds under name.
ClassAttribute(name) == [kind |-> "classattr", v |-> <<name>>]

\* What a layout attribute answers: the instance dictionary, the class, and
\* None for the weak-reference slot.
ObjectDescriptor(obj, name) ==
    CASE name = "__dict__" -> [kind |-> "dict", v |-> obj.attrs]
      [] name = "__class__" -> [kind |-> "class", v |-> <<obj.cls>>]
      [] OTHER -> None

\* getattr on an object whose class has no properties (a namespace, the
\* coordinator).
GetAttr(obj, name) ==
    IF name \in ObjectDescriptors THEN Return(ObjectDescriptor(obj, name))
    ELSE IF name \in DOMAIN obj.attrs THEN Return(obj.attrs[name])
    ELSE IF name \in ObjectAttributes THEN Return(ClassAttribute(name))
    ELSE Raise("AttributeError")

\* setattr on such an object: [exc, obj].  __dict__ takes only a dictionary,
\* __class__ only a class, __weakref__ nothing.
SetAttr(obj, name, value) ==
    CASE name = "__dict__" ->
             IF value.kind = "dict" THEN [exc |-> "none", obj |-> [obj EXCEPT !.attrs = value.v]]
             ELSE [exc |-> "TypeError", obj |-> obj]
      [] name = "__class__" ->
             IF value.kind = "class" THEN [exc |-> "none", obj |-> [obj EXCEPT !.cls = value.v[1]]]
             ELSE [exc |-> "TypeError", obj |-> obj]
      [] name = "__weakref__" -> [exc |-> "AttributeError", obj |-> obj]
      [] OTHER -> [exc |-> "none", obj |-> [obj EXCEPT !.attrs = DictSet(obj.attrs, name, value)]]

(***************************************************************************)
(* Dispatch accessors.                                                     *)
(***************************************************************************)

\* RequestManager(web3, provider, middlewares): the coordinator, holding the
\* transport and the interceptor chain.
Onion(middlewares) == [kind |-> "onion", v |-> middlewares]

RequestManager(provider, middlewares) ==
    Object("manager", "RequestManager",
           DictSet(DictSet(EmptyDict, "provider", provider),
                   "middleware_onion", Onion(middlewares)))

\* self.manager.provider = provider: installs the transport and leaves the
\* rest of the coordinator alone.
ManagerSetProvider(mgr, provider) ==
    [mgr EXCEPT !.attrs = DictSet(mgr.attrs, "provider", provider)]

\* self.manager.<name>: both lookups may fail.
ManagerAttr(self, name) ==
    LET m == GetAttr(self, "manager")
    IN IF m.kind = "raise" THEN m ELSE GetAttr(m.val, name)

middleware_onion(self) == ManagerAttr(self, "middleware_onion")

provider(self) == ManagerAttr(self, "provider")

\* The setter with the coordinator rebuilt around the new transport.
provider_setter_rebuild(self, p) ==
    [self EXCEPT !.attrs = DictSet(self.attrs, "manager", RequestManager(p, <<>>))]

\* self.manager.provider = provider, on a facade that has a manager.
provider_setter(self, p) ==
    [self EXCEPT !.attrs = DictSet(self.attrs, "manager",
                                   ManagerSetProvider(self.attrs["manager"], p))]

\* A transport's probe: answers true or false, or fails to answer.
Provider(name) == [kind |-> "provider", v |-> <<name>>]

Providers == {Provider("HTTPProvider"), Provider("IPCProvider"), Provider("BrokenProvider")}

ProviderIsConnected(p) ==
    CASE p.kind # "provider" -> Raise("AttributeError")
      [] p = Provider("HTTPProvider") -> Return(TRUE)
      [] p = Provider("IPCProvider") -> Return(FALSE)
      [] OTHER -> Raise("ConnectionError")

isConnected(self) ==
    LET p == provider(self)
    IN IF p.kind = "raise" THEN p ELSE ProviderIsConnected(p.val)

(***************************************************************************)
(* The resolver property.                                                  *)
(***************************************************************************)
\* The sentinel web3._utils.empty: "never set", distinct from None.
empty == [kind |-> "empty", v |-> <<>>]

\* A resolver object supplied by the caller.
Resolver(id) == [kind |-> "resolver", v |-> <<id>>]

\* ENS.fromWeb3(self): the default resolver, built for this facade.
ENS_fromWeb3(self) == [kind |-> "default", v |-> <<"ENS.fromWeb3(self)">>]

\* The getter with None taken for "never set".
ens_none_as_unset(self) ==
    IF self.attrs["_ens"] = empty \/ self.attrs["_ens"] = None
    THEN ENS_fromWeb3(self) ELSE self.attrs["_ens"]

ens(self) == IF self.attrs["_ens"] = empty THEN ENS_fromWeb3(self) ELSE self.attrs["_ens"]

ens_setter(self, new_ens) == [self EXCEPT !.attrs = DictSet(self.attrs, "_ens", new_ens)]

(***************************************************************************)
(* Attribute access on the facade, and attach.                             *)
(***************************************************************************)
RECURSIVE getattr(_, _)

\* hasattr(obj, name): whether getattr(obj, name) answers.
hasattr(obj, name) == getattr(obj, name).kind = "return"

pm(self) ==
    IF hasattr(self, "_pm") THEN Return(self.attrs["_pm"])
    ELSE Raise("AttributeError: The Package Management feature is disabled by default")

\* getattr(obj, name).  On the facade a property's getter answers, whatever
\* the instance dictionary holds under that name; then, as on any object, the
\* layout attributes and the instance dictionary; then what class Web3 defines
\* or has from object.
getattr(obj, name) ==
    IF obj.kind # "Web3" THEN GetAttr(obj, name)
    ELSE IF name \in Properties
    THEN CASE name = "middleware_onion" -> middleware_onion(obj)
           [] name = "provider" -> provider(obj)
           [] name = "ens" -> IF "_ens" \in DOMAIN obj.attrs THEN Return(ens(obj))
                              ELSE Raise("AttributeError")
           [] OTHER -> pm(obj)
    ELSE IF name \in ObjectDescriptors \/ name \in DOMAIN obj.attrs THEN GetAttr(obj, name)
    ELSE IF name \in ClassAttributes THEN Return(ClassAttribute(name))
    ELSE Raise("AttributeError")

\* setattr(obj, name, value): [exc, obj].  On the facade a property's setter
\* takes the value, and a property without a setter refuses it; the provider
\* setter needs self.manager.
setattr(obj, name, value) ==
    IF obj.kind # "Web3" \/ name \notin Properties THEN SetAttr(obj, name, value)
    ELSE IF name \notin SettableProperties THEN [exc |-> "AttributeError", obj |-> obj]
    ELSE IF name = "ens" THEN [exc |-> "none", obj |-> ens_setter(obj, value)]
    ELSE IF "manager" \in DOMAIN obj.attrs
    THEN [exc |-> "none", obj |-> provider_setter(obj, value)]
    ELSE [exc |-> "AttributeError", obj |-> obj]

\* Objects are held by reference: when the object that getattr(obj, name)
\* returned is changed in place into target, obj shows the change where it
\* holds that object (no assignment to name takes place).  A property's value
\* is held where its getter read it; the default resolver, built anew by each
\* read, and what the class holds are not held by obj.
WriteBack(obj, name, target) ==
    LET held(at) == [obj EXCEPT !.attrs = DictSet(obj.attrs, at, target)]
        heldByManager(at) ==
            [obj EXCEPT !.attrs = DictSet(obj.attrs, "manager",
                [obj.attrs["manager"] EXCEPT
                    !.attrs = DictSet(obj.attrs["manager"].attrs, at, target)])]
    IN IF obj.kind = "Web3" /\ name \in Properties
       THEN CASE name = "provider" -> heldByManager("provider")
              [] name = "middleware_onion" -> heldByManager("middleware_onion")
              [] name = "ens" -> IF obj.attrs["_ens"] = empty THEN obj ELSE held("_ens")
              [] OTHER -> held("_pm")
       ELSE IF name \in DOMAIN obj.attrs /\ name \notin ObjectDescriptors THEN held(name)
       ELSE obj

\* cls(web3): a fresh namespace object of class cls with nothing attached.
NewNamespace(cls) == Object("module", cls, EmptyDict)

\* Module.attach(target, module_name): binds a new namespace object of class
\* cls on the target under module_name by attribute assignment; whatever the
\* assignment replaces is replaced silently.  [exc, obj].
attach(cls, target, module_name) == setattr(target, module_name, NewNamespace(cls))

\* The gated package-management namespace.  First, the activation binding
\* the namespace under the property's own name.
enable_under_public_name(self) ==
    [self EXCEPT !.attrs = DictSet(self.attrs, "pm", NewNamespace("PM"))]

enable_unstable_package_management_api(self) == attach("PM", self, "_pm").obj

(***************************************************************************)
(* Module composition.                                                     *)
(***************************************************************************)

\* A module spec is [name, module, submodules]; submodules is the ordered
\* dict of the 'submodules' key as a sequence of [name, module] with distinct
\* names (a dict's keys are distinct), empty when the key is absent.
ModuleSpec(name, module, submodules) ==
    [name |-> name, module |-> module, submodules |-> submodules]

SubSpec(name, module) == [name |-> name, module |-> module]

get_default_modules ==
    << ModuleSpec("eth", "Eth", <<>>),
       ModuleSpec("net", "Net", <<>>),
       ModuleSpec("version", "Version", <<>>),
       ModuleSpec("txpool", "TxPool", <<>>),
       ModuleSpec("miner", "Miner", <<>>),
       ModuleSpec("admin", "Admin", <<>>),
       ModuleSpec("parity", "Parity", <<SubSpec("personal", "ParityPersonal")>>),
       ModuleSpec("geth", "Geth", <<SubSpec("personal", "GethPersonal")>>),
       ModuleSpec("testing", "Testing", <<>>) >>

\* One step of a loop of __init__ that attached (or failed to): st is
\* [self, log, exc], r the [exc, obj] of the attach on owner.
Attached(st, r, self, owner, name) ==
    IF r.exc # "none" THEN [st EXCEPT !.exc = r.exc]
    ELSE [st EXCEPT !.self = self, !.log = Append(st.log, <<owner, name>>)]

\* The inner loop of __init__: attach the submodules subs[i..], in order, on
\* getattr(self, name).  First, the same loop attaching on the facade itself.
RECURSIVE AttachSubmodulesOnRoot(_, _, _, _)
AttachSubmodulesOnRoot(st, name, subs, i) ==
    IF i > Len(subs) \/ st.exc # "none" THEN st
    ELSE LET r == attach(subs[i].module, st.self, subs[i].name)
         IN AttachSubmodulesOnRoot(Attached(st, r, r.obj, name, subs[i].name),
                                   name, subs, i + 1)

RECURSIVE AttachSubmodules(_, _, _, _)
AttachSubmodules(st, name, subs, i) ==
    IF i > Len(subs) \/ st.exc # "none" THEN st
    ELSE LET parent == getattr(st.self, name)
         IN IF parent.kind = "raise" THEN [st EXCEPT !.exc = parent.val]
            ELSE LET r == attach(subs[i].module, parent.val, subs[i].name)
                 IN AttachSubmodules(
                        Attached(st, r, WriteBack(st.self, name, r.obj), name, subs[i].name),
                        name, subs, i + 1)

\* The outer loop of __init__ over modules[i..].
RECURSIVE AttachModules(_, _, _)
AttachModules(st, modules, i) ==
    IF i > Len(modules) \/ st.exc # "none" THEN st
    ELSE LET m == modules[i]
             r == attach(m.module, st.self, m.name)
             top == Attached(st, r, r.obj, "self", m.name)
         IN AttachModules(AttachSubmodules(top, m.name, m.submodules, 1), modules, i + 1)

\* The argument modules: None (left out), or a list of module specs.
NoModules == [given |-> FALSE, list |-> <<>>]

Modules(list) == [given |-> TRUE, list |-> list]

\* Web3.__init__(provider, middlewares, modules, ens): [exc, self, log].
\* log is the order of the attach calls that bound, each <<owner, name>>
\* with owner "self" for the facade.
Web3Init(provider_, middlewares, modules, ens_) ==
    LET mods == IF modules.given THEN modules.list ELSE get_default_modules
        new == Object("Web3", "Web3",
                      DictSet(EmptyDict, "manager", RequestManager(provider_, middlewares)))
        st == AttachModules([self |-> new, log |-> <<>>, exc |-> "none"], mods, 1)
    IN [exc |-> st.exc,
        log |-> st.log,
        self |-> IF st.exc = "none" THEN ens_setter(st.self, ens_) ELSE st.self]

(***************************************************************************)
(* Strings and bytes.  A str is the sequence of its character codes, a     *)
(* bytes object the sequence of its byte values.                           *)
(***************************************************************************)
RECURSIVE Concat(_)
Concat(ss) == IF ss = <<>> THEN <<>> ELSE Head(ss) \o Concat(Tail(ss))

\* The character of a hex digit 0..15 ('0'..'9', 'a'..'f') and back;
\* HexVal is -1 on a character that is no hex digit.
HexChar(d) == IF d < 10 THEN 48 + d ELSE 87 + d

HexVal(c) ==
    CASE c \in 48..57 -> c - 48
      [] c \in 97..102 -> c - 87
      [] c \in 65..70 -> c - 55
      [] OTHER -> -1

is_0x_prefixed(s) == Len(s) >= 2 /\ s[1] = 48 /\ s[2] \in {120, 88}

remove_0x_prefix(s) == IF is_0x_prefixed(s) THEN SubSeq(s, 3, Len(s)) ELSE s

add_0x_prefix(s) == IF is_0x_prefixed(s) THEN s ELSE <<48, 120>> \o s

\* encode_hex(b): '0x' and two hex digits per byte.
encode_hex(b) ==
    <<48, 120>> \o Concat([i \in 1..Len(b) |-> <<HexChar(b[i] \div 16), HexChar(b[i] % 16)>>])

\* decode_hex(s): the bytes of an even-length hex string, with or without
\* its prefix; [ok, bytes].
decode_hex(s) ==
    LET d == remove_0x_prefix(s)
    IN IF Len(d) % 2 = 0 /\ \A i \in 1..Len(d) : HexVal(d[i]) >= 0
       THEN [ok |-> TRUE,
             bytes |-> [i \in 1..(Len(d) \div 2) |->
                           16 * HexVal(d[2 * i - 1]) + HexVal(d[2 * i])]]
       ELSE [ok |-> FALSE, bytes |-> <<>>]

\* The hex digits of n without leading zeros ("0" for 0), as hex(n) gives.
RECURSIVE HexDigits(_)
HexDigits(n) == IF n < 16 THEN <<HexChar(n)>> ELSE Append(HexDigits(n \div 16), HexChar(n % 16))

to_hex(n) == <<48, 120>> \o HexDigits(n)

\* n as exactly size bytes, big-endian.
RECURSIVE ToBigEndian(_, _)
ToBigEndian(n, size) ==
    IF size = 0 THEN <<>> ELSE Append(ToBigEndian(n \div 256, size - 1), n % 256)

(***************************************************************************)
(* Python values: [kind, v].  kind is "None", "bytes", "int", "bool",      *)
(* "str", and for solidityKeccak's values also "address" (a hex address    *)
(* string, by its number) and "name" (a str that is a human-readable name).*)
(***************************************************************************)
PyBytes(b) == [kind |-> "bytes", v |-> b]

PyInt(n) == [kind |-> "int", v |-> <<n>>]

PyBool(b) == [kind |-> "bool", v |-> <<IF b THEN 1 ELSE 0>>]

PyStr(s) == [kind |-> "str", v |-> s]

PyAddress(n) == [kind |-> "address", v |-> <<n>>]

PyName(s) == [kind |-> "name", v |-> s]

\* isinstance(primitive, (bytes, int, type(None))); bool is a subclass of int.
IsBytesIntOrNone(primitive) == primitive.kind \in {"bytes", "int", "bool", "None"}

\* to_bytes(primitive, hexstr, text): exactly one of the three may be given.
to_bytes_hexstr(hexstr) ==
    LET padded == IF Len(hexstr) % 2 = 1
                  THEN <<48, 120, 48>> \o remove_0x_prefix(hexstr) ELSE hexstr
        d == decode_hex(padded)
    IN IF d.ok THEN Return(d.bytes) ELSE Raise("ValueError")

to_bytes(primitive, hexstr, text) ==
    IF Cardinality({i \in 1..3 : <<primitive, hexstr, text>>[i] # None}) # 1
    THEN Raise("TypeError")
    ELSE CASE primitive.kind = "bool" -> Return(primitive.v)
           [] primitive.kind = "bytes" -> Return(primitive.v)
           [] primitive.kind = "int" -> to_bytes_hexstr(to_hex(primitive.v[1]))
           [] hexstr # None -> to_bytes_hexstr(hexstr.v)
           [] text # None -> Return(text.v)
           [] OTHER -> Raise("TypeError")

\* keccak-256 of a buffer: the digest is determined by the buffer, and
\* different buffers have different digests.
eth_utils_keccak(input_bytes) == [kind |-> "keccak256", v |-> input_bytes]

IsDigest(r) == r.kind = "return" /\ r.val.kind = "keccak256"

\* Web3.keccak, with a positional str taken as if it were text=.
keccak_str_as_text(primitive, text, hexstr) ==
    IF primitive.kind = "str" /\ text = None
    THEN LET b == to_bytes(None, hexstr, primitive)
         IN IF b.kind = "return" THEN Return(eth_utils_keccak(b.val)) ELSE b
    ELSE IF IsBytesIntOrNone(primitive)
    THEN LET b == to_bytes(primitive, hexstr, text)
         IN IF b.kind = "return" THEN Return(eth_utils_keccak(b.val)) ELSE b
    ELSE Raise("TypeError")

\* Web3.keccak(primitive=None, text=None, hexstr=None).  The HexBytes the
\* decorator wraps the digest in holds the same bytes.
keccak(primitive, text, hexstr) ==
    IF IsBytesIntOrNone(primitive)
    THEN LET input_bytes == to_bytes(primitive, hexstr, text)
         IN IF input_bytes.kind = "return"
            THEN Return(eth_utils_keccak(input_bytes.val))
            ELSE input_bytes
    ELSE Raise("TypeError")

(***************************************************************************)
(* Packed-ABI hashing.                                                     *)
(***************************************************************************)
\* The names "a.eth" and "b.eth".
NameA == <<97, 46, 101, 116, 104>>

NameB == <<98, 46, 101, 116, 104>>

\* EnsResolver.resolve(name): an address, or a failure to resolve.  The
\* resolvers of the model know different names.
Resolve(resolver, name) ==
    CASE resolver.kind = "default" ->
             IF name = NameA THEN Return(PyAddress(1)) ELSE Raise("ResolutionError")
      [] resolver = Resolver("ensA") ->
             IF name = NameA THEN Return(PyAddress(2)) ELSE Return(PyAddress(258))
      [] OTHER -> Raise("ResolutionError")

\* The w3 handed to the normalizer: None, or a client instance.
W3None == [bound |-> FALSE, self |-> None]

W3Of(self) == [bound |-> TRUE, self |-> self]

\* The receiver of a combomethod: the class Web3, or an instance.
ClassWeb3 == [isType |-> TRUE, self |-> None]

Instance(self) == [isType |-> FALSE, self |-> self]

\* abi_ens_resolver(w3)(abi_type, val): a name in an address position is
\* replaced by what the client's resolver says; without a client, or without
\* a resolver, nothing is attempted and the value passes through.
\* [out, asked]: asked lists the names the resolver was invoked with.
abi_ens_resolver(w3opt, abi_type, val) ==
    IF abi_type = "address" /\ val.kind = "name" /\ w3opt.bound
    THEN LET resolver == ens(w3opt.self)
         IN IF resolver = None
            THEN [out |-> Return(val), asked |-> <<>>]
            ELSE [out |-> Resolve(resolver, val.v), asked |-> <<val.v>>]
    ELSE [out |-> Return(val), asked |-> <<>>]

\* map_abi_data([abi_ens_resolver(w3)], abi_types, values): the normalizer
\* applied to the pairs zip(abi_types, values), left to right; the first
\* failure propagates.  acc is [exc, values, asked].
RECURSIVE MapFrom(_, _, _, _, _)
MapFrom(w3opt, abi_types, values, i, acc) ==
    IF i > Len(abi_types) \/ i > Len(values) \/ acc.exc # "none" THEN acc
    ELSE LET r == abi_ens_resolver(w3opt, abi_types[i], values[i])
         IN MapFrom(w3opt, abi_types, values, i + 1,
                [exc |-> IF r.out.kind = "raise" THEN r.out.val ELSE "none",
                 values |-> IF r.out.kind = "raise" THEN acc.values
                            ELSE Append(acc.values, r.out.val),
                 asked |-> acc.asked \o r.asked])

map_abi_data(w3opt, abi_types, values) ==
    MapFrom(w3opt, abi_types, values, 1, [exc |-> "none", values |-> <<>>, asked |-> <<>>])

\* The size in bytes of an address.
AddressBytes == 20

\* The packed (non-padded) encoding of one value: integers at their declared
\* width, bool as one byte, an address as its 20 bytes, a string (and a name
\* left as a literal) as its characters, with no length prefix.
PackedBytes(abi_type, value) ==
    CASE value.kind = "name" -> value.v
      [] abi_type = "uint8" -> ToBigEndian(value.v[1], 1)
      [] abi_type = "uint16" -> ToBigEndian(value.v[1], 2)
      [] abi_type = "bool" -> value.v
      [] abi_type = "address" -> ToBigEndian(value.v[1], AddressBytes)
      [] OTHER -> value.v

hex_encode_abi_type(abi_type, value) == encode_hex(PackedBytes(abi_type, value))

\* Lines 184-187 of solidityKeccak: w3 is None on the class, the instance
\* otherwise.  Below it, the same with the instance never passed on.
NormalizerHostDropped(cls) == W3None

NormalizerHost(cls) == IF cls.isType THEN W3None ELSE W3Of(cls.self)

\* Lines 190-194: the hex string handed to keccak, from zip(abi_types,
\* normalized_values).  Above it, the same with the pieces joined last-first.
PackedHexStringReversed(abi_types, normalized_values) ==
    LET n == Len(abi_types)
    IN add_0x_prefix(Concat(
         [i \in 1..n |->
            remove_0x_prefix(hex_encode_abi_type(abi_types[n + 1 - i],
                                                 normalized_values[n + 1 - i]))]))

PackedHexString(abi_types, normalized_values) ==
    add_0x_prefix(Concat(
      [i \in 1..Len(abi_types) |->
         remove_0x_prefix(hex_encode_abi_type(abi_types[i], normalized_values[i]))]))

\* What a call of solidityKeccak did: its outcome, the values the
\* normalization pass produced, the names the resolver was asked, and the
\* (type, value) pairs handed to the encoder.
HashOutcome(out, normalized, asked, encoded) ==
    [out |-> out, normalized |-> normalized, asked |-> asked, encoded |-> encoded]

\* Line 195, cls.keccak(hexstr=hex_string): keccak is looked up through the
\* receiver.  On the class, and on an instance whose dictionary has no
\* keccak, it is Web3.keccak; what an instance holds under that name instead
\* (a namespace) is not callable.
ReceiverKeccak(cls) ==
    IF cls.isType THEN Return(ClassAttribute("keccak")) ELSE getattr(cls.self, "keccak")

CallReceiverKeccak(cls, hex_string) ==
    LET f == ReceiverKeccak(cls)
    IN IF f.kind = "raise" THEN f
       ELSE IF f.val = ClassAttribute("keccak") THEN keccak(None, None, PyStr(hex_string))
       ELSE Raise("TypeError")

\* solidityKeccak from line 184 on, for abi_types and values of one length.
NormalizeEncodeHash(cls, abi_types, values) ==
    LET n == map_abi_data(NormalizerHost(cls), abi_types, values)
    IN IF n.exc # "none"
       THEN HashOutcome(Raise(n.exc), n.values, n.asked, <<>>)
       ELSE HashOutcome(CallReceiverKeccak(cls, PackedHexString(abi_types, n.values)),
                        n.values, n.asked,
                        [i \in 1..Len(abi_types) |-> <<abi_types[i], n.values[i]>>])

\* solidityKeccak with the length check made only after the work on the
\* common prefix of the two lists.
solidityKeccakLateCheck(cls, abi_types, values) ==
    LET k == IF Len(abi_types) < Len(values) THEN Len(abi_types) ELSE Len(values)
        r == NormalizeEncodeHash(cls, SubSeq(abi_types, 1, k), SubSeq(values, 1, k))
    IN IF Len(abi_types) # Len(values) /\ r.out.kind = "return"
       THEN [r EXCEPT !.out = Raise("ValueError")]
       ELSE r

\* Web3.solidityKeccak(cls, abi_types, values).
solidityKeccak(cls, abi_types, values) ==
    IF Len(abi_types) # Len(values)
    THEN HashOutcome(Raise("ValueError"), <<>>, <<>>, <<>>)
    ELSE NormalizeEncodeHash(cls, abi_types, values)

(***************************************************************************)
(* Inputs of the model.                                                    *)
(***************************************************************************)
Middlewares == {"gas_price_strategy", "name_to_address"}

\* The resolver argument of the constructor: left out (empty), None, or a
\* resolver.  The setter is given None or a resolver.
EnsValues == {None, Resolver("ensA"), Resolver("ensB")}

EnsArgs == {empty} \cup EnsValues

\* Module specs to compose: a name used twice with different classes, a
\* submodule named like a top-level module, submodule dicts of 0, 1, 2
\* entries; modules named like an attribute, a property or a method of the
\* facade, or like what it has from object; a submodule named like a layout
\* attribute.
SubDicts ==
    { <<>>,
      <<SubSpec("personal", "GethPersonal")>>,
      <<SubSpec("personal", "ParityPersonal"), SubSpec("eth", "Eth")>> }

FacadeNames ==
    {"manager", "_ens", "_pm", "keccak", "isConnected",
     "enable_unstable_package_management_api", "__class__", "__doc__"}
    \cup Properties

ModulePool ==
    {ModuleSpec(n, c, sd) : n \in {"eth", "geth"}, c \in {"Eth", "Geth"}, sd \in SubDicts}
    \cup {ModuleSpec(n, "Eth", sd) :
              n \in FacadeNames, sd \in {<<>>, <<SubSpec("personal", "GethPersonal")>>}}
    \cup {ModuleSpec("eth", "Eth", <<SubSpec("__dict__", "GethPersonal")>>)}

ModuleLists == {Modules(l) : l \in SeqsUpTo(ModulePool, MaxModules)} \cup {NoModules}

\* The module lists the live facades are composed from: the default modules,
\* no module, and each single module of the pool.
FacadeModules == {Modules(l) : l \in SeqsUpTo(ModulePool, 1)} \cup {NoModules}

\* Arguments of keccak: "abc" as bytes, as an integer, as text and as hex; an
\* odd-length and a malformed hex string; a str passed positionally.
TextAbc == <<97, 98, 99>>

HexAbc == <<48, 120, 54, 49, 54, 50, 54, 51>>

KeccakPrimitives ==
    {None, PyBytes(TextAbc), PyInt(6382179), PyInt(5), PyBool(TRUE), PyStr(TextAbc)}

KeccakTexts == {None, PyStr(TextAbc)}

KeccakHexstrs == {None, PyStr(HexAbc), PyStr(<<48, 120, 53>>), PyStr(<<48, 120, 122, 122>>)}

\* Arguments of solidityKeccak: a value fits the type of its position; a name
\* may stand where an address or a string is expected.
TypePool == {"uint8", "uint16", "bool", "address", "string"}

ValuePool ==
    {PyInt(5), PyInt(258), PyBool(TRUE), PyAddress(1), PyName(NameA), PyName(NameB)}

Fits(abi_type, value) ==
    CASE abi_type = "uint8" -> value.kind = "int" /\ value.v[1] < 256
      [] abi_type = "uint16" -> value.kind = "int" /\ value.v[1] < 65536
      [] abi_type = "bool" -> value.kind = "bool"
      [] abi_type = "address" -> value.kind \in {"address", "name"}
      [] OTHER -> value.kind = "name"

\* The facades the hashing utilities are called on: composed from the default
\* modules, and composed with a namespace named keccak.
HashFacadeModules == {NoModules, Modules(<<ModuleSpec("keccak", "Eth", <<>>)>>)}

HashArgs ==
    {a \in SeqsUpTo(TypePool, MaxLen) \X SeqsUpTo(ValuePool, MaxLen) :
        \A i \in 1..Len(a[1]) : i <= Len(a[2]) => Fits(a[1][i], a[2][i])}

(***************************************************************************)
(* State machine.                                                          *)
(***************************************************************************)
Call(op, state, args) == [op |-> op, state |-> state, args |-> args]

\* What the callers have done so far: the transport and the resolver last
\* written (by the constructor or a setter; empty: no resolver was written,
\* none being given or line 141 not being reached), whether the
\* package-management activation was called, the module specs the
\* facade was composed from, and the middlewares given to the constructor
\* followed by those added since.
History(p, e, a, composed, onion) ==
    [provider |-> p, ens |-> e, activated |-> a, composed |-> composed, onion |-> onion]

\* The module specs a constructor call composes.
Composed(modules) == IF modules.given THEN modules.list ELSE get_default_modules

\* The namespace a module spec asks for, when the first n of its submodules
\* are attached: of its class, holding those submodules.
Namespace(m, n) ==
    Object("module", m.module,
           [name \in {m.submodules[j].name : j \in 1..n} |->
               NewNamespace(m.submodules[CHOOSE j \in 1..n :
                                             m.submodules[j].name = name].module)])

\* The transport last written when __init__ is over, completed or ended by
\* an attach that raised: the constructor's argument, or the namespace of the
\* last module spec named provider whose attach bound, which attach assigns
\* through the provider setter, with the submodules attached on it since.
\* log is Web3Init's: one <<"self", name>> for each module spec that bound,
\* followed by one entry for each of its submodules that bound.
TransportAfterInit(p, mods, log) ==
    LET tops == {b \in 1..Len(log) : log[b][1] = "self"}
        k == Cardinality(tops)
        at == {i \in 1..k : mods[i].name = "provider"}
        last == CHOOSE i \in at : \A j \in at : j <= i
        lastTop == CHOOSE b \in tops : \A c \in tops : c <= b
    IN IF at = {} THEN p
       ELSE Namespace(mods[last],
                      IF last < k THEN Len(mods[last].submodules)
                      ELSE Len(log) - lastTop)

NoObject == Object("Web3", "Web3", EmptyDict)

\* ---- Construction: Web3(provider, middlewares, modules, ens) ----
ComposeInit ==
    /\ w3 = NoObject
    /\ built = "pending"
    /\ call \in {Call("__init__", "pending", <<Provider("HTTPProvider"), <<>>, ms, e>>) :
                    ms \in ModuleLists, e \in {empty, None}}
    /\ result = NoResult
    /\ hist = History(Provider("none"), empty, FALSE, <<>>, <<>>)

Construct ==
    /\ built = "pending"
    /\ LET r == Web3Init(call.args[1], call.args[2], call.args[3], call.args[4])
       IN /\ built' = IF r.exc = "none" THEN "live" ELSE "failed"
          /\ w3' = IF r.exc = "none" THEN r.self ELSE NoObject
          /\ result' = [out |-> IF r.exc = "none" THEN Return("self") ELSE Raise(r.exc),
                        log |-> r.log]
    /\ call' = [call EXCEPT !.state = "done"]
    /\ LET r == Web3Init(call.args[1], call.args[2], call.args[3], call.args[4])
       IN hist' = History(TransportAfterInit(call.args[1], Composed(call.args[3]), r.log),
                          IF r.exc = "none" THEN call.args[4] ELSE empty,
                          FALSE, Composed(call.args[3]), call.args[2])

ComposeNext == Construct

SpecCompose == ComposeInit /\ [][ComposeNext]_vars

\* ---- The live facade ----
\* A method called through the facade, w3.name(...), is what getattr(w3, name)
\* finds: the function class Web3 defines, unless the instance dictionary
\* holds a namespace under that name, which is not callable; the call then
\* raises TypeError before any line of the method runs.
Reaches(self, name) == getattr(self, name) = Return(ClassAttribute(name))

NotCallable == Raise("TypeError")

\* The state of a call made through the facade: done by the method, or
\* refused before the method was entered.
Reached(self, name) == IF Reaches(self, name) THEN "done" ELSE "refused"

Init ==
    /\ \E p \in Providers, mw \in SeqsUpTo(Middlewares, 1), e \in EnsArgs,
          ms \in FacadeModules :
          /\ Web3Init(p, mw, ms, e).exc = "none"
          /\ w3 = Web3Init(p, mw, ms, e).self
          /\ hist = History(TransportAfterInit(p, Composed(ms), Web3Init(p, mw, ms, e).log),
                            e, FALSE, Composed(ms), mw)
    /\ built = "live"
    /\ call = Call("__init__", "done", <<>>)
    /\ result = Return("self")

GetProvider ==
    /\ result' = provider(w3)
    /\ call' = Call("provider", "done", <<>>)
    /\ UNCHANGED <<w3, built, hist>>

\* w3.provider = p.
SetProvider ==
    \E p \in Providers :
        LET r == setattr(w3, "provider", p)
        IN /\ w3' = r.obj
           /\ hist' = IF r.exc = "none" THEN [hist EXCEPT !.provider = p] ELSE hist
           /\ call' = Call("provider.setter", "done", <<p>>)
           /\ result' = IF r.exc = "none" THEN Return("None") ELSE Raise(r.exc)
           /\ UNCHANGED built

\* w3.middleware_onion = a chain of the caller's.
SetMiddlewareOnion ==
    \E m \in Middlewares :
        LET r == setattr(w3, "middleware_onion", Onion(<<m>>))
        IN /\ w3' = r.obj
           /\ hist' = IF r.exc = "none" THEN [hist EXCEPT !.onion = <<m>>] ELSE hist
           /\ call' = Call("middleware_onion.setter", "done", <<m>>)
           /\ result' = IF r.exc = "none" THEN Return("None") ELSE Raise(r.exc)
           /\ UNCHANGED built

GetMiddlewareOnion ==
    /\ result' = middleware_onion(w3)
    /\ call' = Call("middleware_onion", "done", <<>>)
    /\ UNCHANGED <<w3, built, hist>>

\* A caller appends to the chain through the object middleware_onion returned.
AddMiddleware ==
    \E m \in Middlewares :
        /\ middleware_onion(w3).kind = "return"
        /\ Len(middleware_onion(w3).val.v) < MaxOnion
        /\ w3' = [w3 EXCEPT !.attrs["manager"].attrs["middleware_onion"].v = Append(@, m)]
        /\ hist' = [hist EXCEPT !.onion = Append(@, m)]
        /\ call' = Call("middleware_onion.add", "done", <<m>>)
        /\ result' = Return("None")
        /\ UNCHANGED built

\* w3.isConnected().
IsConnected ==
    /\ result' = IF Reaches(w3, "isConnected") THEN isConnected(w3) ELSE NotCallable
    /\ call' = Call("isConnected", Reached(w3, "isConnected"), <<>>)
    /\ UNCHANGED <<w3, built, hist>>

GetEns ==
    /\ result' = Return(ens(w3))
    /\ call' = Call("ens", "done", <<>>)
    /\ UNCHANGED <<w3, built, hist>>

SetEns ==
    \E e \in EnsValues :
        /\ w3' = ens_setter(w3, e)
        /\ hist' = [hist EXCEPT !.ens = e]
        /\ call' = Call("ens.setter", "done", <<e>>)
        /\ result' = Return("None")
        /\ UNCHANGED built

GetPm ==
    /\ result' = pm(w3)
    /\ call' = Call("pm", "done", <<>>)
    /\ UNCHANGED <<w3, built, hist>>

\* w3.enable_unstable_package_management_api().
EnablePm ==
    LET name == "enable_unstable_package_management_api"
    IN /\ w3' = IF Reaches(w3, name) THEN enable_unstable_package_management_api(w3) ELSE w3
       /\ hist' = [hist EXCEPT !.activated = TRUE]
       /\ call' = Call(name, Reached(w3, name), <<>>)
       /\ result' = IF Reaches(w3, name) THEN Return("None") ELSE NotCallable
       /\ UNCHANGED built

Next ==
    \/ GetProvider
    \/ SetProvider
    \/ GetMiddlewareOnion
    \/ SetMiddlewareOnion
    \/ AddMiddleware
    \/ IsConnected
    \/ GetEns
    \/ SetEns
    \/ GetPm
    \/ EnablePm

Spec == Init /\ [][Next]_vars

\* ---- The hashing utilities: Web3.keccak(...) called on the class, and
\* solidityKeccak called on the class or on a live facade ----
HashInit ==
    /\ \E e \in EnsArgs, ms \in HashFacadeModules :
          /\ w3 = Web3Init(Provider("HTTPProvider"), <<>>, ms, e).self
          /\ hist = History(Provider("HTTPProvider"), e, FALSE, Composed(ms), <<>>)
    /\ built = "live"
    /\ result = NoResult
    /\ call \in {Call("keccak", "pending", <<p, t, h>>) :
                    p \in KeccakPrimitives, t \in KeccakTexts, h \in KeccakHexstrs}
               \cup {Call("solidityKeccak", "pending", <<bound, a[1], a[2]>>) :
                        bound \in BOOLEAN, a \in HashArgs}

CallKeccak ==
    /\ call.op = "keccak" /\ call.state = "pending"
    /\ result' = keccak(call.args[1], call.args[2], call.args[3])
    /\ call' = [call EXCEPT !.state = "done"]
    /\ UNCHANGED <<w3, built, hist>>

CallSolidityKeccak ==
    /\ call.op = "solidityKeccak" /\ call.state = "pending"
    /\ LET reaches == call.args[1] => Reaches(w3, "solidityKeccak")
       IN /\ result' = IF reaches
                        THEN solidityKeccak(IF call.args[1] THEN Instance(w3) ELSE ClassWeb3,
                                            call.args[2], call.args[3])
                        ELSE HashOutcome(NotCallable, <<>>, <<>>, <<>>)
          /\ call' = [call EXCEPT !.state = IF reaches THEN "done" ELSE "refused"]
    /\ UNCHANGED <<w3, built, hist>>

HashNext == CallKeccak \/ CallSolidityKeccak

SpecHash == HashInit /\ [][HashNext]_vars

(***************************************************************************)
(* Properties.                                                             *)
(***************************************************************************)
HasDuplicateName(ms) == \E i, j \in 1..Len(ms) : i < j /\ ms[i].name = ms[j].name

Constructed == call.op = "__init__" /\ call.state = "done"

ComposedList == Composed(call.args[3])

\* C1: composing a spec list in which two entries declare the same top-level
\* name fails; construction does not complete with the later entry bound in
\* place of the earlier one.
C1_DuplicateNameFails ==
    (Constructed /\ HasDuplicateName(ComposedList))
        => (built = "failed" /\ result.out.kind = "raise")

\* The names under which a namespace attached on the facade is not the
\* facade's afterwards: _ens and the property ens, which line 141 assigns
\* last; the properties without a setter; the layout attributes, which take
\* no namespace.
ReservedNames == {"_ens", "ens", "pm", "middleware_onion"} \cup ObjectDescriptors

HasReservedName(ms) ==
    \E i \in 1..Len(ms) :
        \/ ms[i].name \in ReservedNames
        \/ \E j \in 1..Len(ms[i].submodules) : ms[i].submodules[j].name \in ObjectDescriptors

\* A module named manager composed after one named provider: the namespace
\* provider is held by the coordinator, which the namespace manager replaces.
ManagerAfterProvider(ms) ==
    \E i, j \in 1..Len(ms) : i < j /\ ms[i].name = "provider" /\ ms[j].name = "manager"

\* Construction completed and the facade holds the namespaces of ms: each
\* reachable by getattr under its declared name, with its declared
\* submodules under their declared names, no submodule bound on the facade
\* itself, and every submodule attached on its parent after the parent was
\* attached on the facade.
AllAttached(ms) ==
    LET log == result.log
    IN /\ built = "live"
       /\ result.out.kind = "return"
       /\ DOMAIN w3.attrs \subseteq {ms[i].name : i \in 1..Len(ms)} \cup {"manager", "_ens"}
       /\ \A i \in 1..Len(ms) :
            LET m == ms[i]
                got == getattr(w3, m.name)
            IN /\ got.kind = "return"
               /\ got.val.kind = "module"
               /\ got.val.cls = m.module
               /\ {m.submodules[j].name : j \in 1..Len(m.submodules)} \subseteq DOMAIN got.val.attrs
               /\ \A j \in 1..Len(m.submodules) :
                    LET sub == m.submodules[j]
                    IN /\ got.val.attrs[sub.name] = NewNamespace(sub.module)
                       /\ \E b \in 1..Len(log) : log[b] = <<m.name, sub.name>>
                       /\ \A b \in 1..Len(log) :
                            log[b] = <<m.name, sub.name>>
                                => \E a \in 1..(b - 1) : log[a] = <<"self", m.name>>

HashCalled == call.op = "solidityKeccak" /\ call.state = "done"

\* C3: when the two lists differ in length solidityKeccak raises the arity
\* error and has done nothing else: no value normalized, the resolver never
\* asked, nothing encoded, no digest; on the class and on an instance alike.
C3_ArityCheckedFirst ==
    (HashCalled /\ Len(call.args[2]) # Len(call.args[3])) =>
        /\ result.out = Raise("ValueError")
        /\ Len(result.normalized) = 0
        /\ Len(result.asked) = 0
        /\ Len(result.encoded) = 0

C3_Witness ==
    /\ HashCalled
    /\ call.args[1] = TRUE
    /\ w3.attrs["_ens"] = Resolver("ensA")
    /\ call.args[2] = <<"address">>
    /\ Len(call.args[3]) = 2
    /\ call.args[3][1].kind = "name"
    /\ result.out = Raise("ValueError")

ComposedNames == {hist.composed[i].name : i \in 1..Len(hist.composed)}

\* The facade's provider is the coordinator's current transport, the one
\* most recently written, and a read returns it; its chain is the
\* coordinator's, as the constructor was given it and callers extended it;
\* the facade takes no assignment to the chain, and its own dictionary holds
\* neither value.
ForwardsToCoordinator ==
    /\ provider(w3) = Return(hist.provider)
    /\ call.op = "provider" => result = Return(hist.provider)
    /\ middleware_onion(w3) = Return(Onion(hist.onion))
    /\ call.op = "middleware_onion" => result = Return(Onion(hist.onion))
    /\ \A m \in Middlewares :
          setattr(w3, "middleware_onion", Onion(<<m>>)) = [exc |-> "AttributeError", obj |-> w3]
    /\ call.op = "middleware_onion.setter" => result = Raise("AttributeError")
    /\ "provider" \notin DOMAIN w3.attrs
    /\ "middleware_onion" \notin DOMAIN w3.attrs

\* Every write of the provider leaves the chain as it was, and no write
\* gives the facade's own dictionary a new entry.
ProviderWriteKeepsChain ==
    call'.op = "provider.setter" =>
        /\ middleware_onion(w3') = middleware_onion(w3)
        /\ DOMAIN w3'.attrs = DOMAIN w3.attrs

\* C4 as stated: on every facade, after any reads and writes, the provider
\* read is the coordinator's current transport, the one most recently set;
\* every write of the provider leaves the chain unchanged; the facade has no
\* setter for the chain and keeps no copy of either value.
C4_ProviderForwards == []ForwardsToCoordinator /\ [][ProviderWriteKeepsChain]_vars

\* C4, amended: the same, on a facade composed without a module named
\* manager.
C4_UnreplacedManagerForwards ==
    /\ []("manager" \notin ComposedNames => ForwardsToCoordinator)
    /\ []["manager" \notin ComposedNames => ProviderWriteKeepsChain]_vars

C4_Witness ==
    /\ "manager" \notin ComposedNames
    /\ call.op = "provider.setter"
    /\ call.args[1] = Provider("IPCProvider")
    /\ provider(w3) = Return(Provider("IPCProvider"))
    /\ Len(middleware_onion(w3).val.v) >= 2

FeatureDisabled ==
    Raise("AttributeError: The Package Management feature is disabled by default")

\* Reading pm fails with the feature-disabled error exactly while no
\* activation call has been made, and so right after construction; after
\* activation it returns the bound PM object.
PmGated ==
    /\ pm(w3) = FeatureDisabled <=> ~hist.activated
    /\ hist.activated => (pm(w3).kind = "return" /\ pm(w3).val.cls = "PM")
    /\ call.op = "__init__" => pm(w3) = FeatureDisabled
    /\ call.op = "pm" => result = pm(w3)

\* Once reading pm succeeds it succeeds after every operation.
PmStaysEnabled == pm(w3).kind = "return" => pm(w3').kind = "return"

\* C5 as stated: on every facade, reading pm fails with the feature-disabled
\* error exactly while no activation call has been made; it fails right
\* after construction; after activation it returns the bound PM object; and
\* no operation returns the facade to the disabled state.
C5_PmGate == []PmGated /\ [][PmStaysEnabled]_vars

\* The names under which a composed namespace stands in the gate's way: _pm,
\* where the activation binds, and the activation's own name, under which the
\* namespace is found in place of the method.
GateNames == {"_pm", "enable_unstable_package_management_api"}

\* C5, amended: the same, on a facade composed without a module named _pm
\* or enable_unstable_package_management_api.
C5_UncomposedPmGate ==
    /\ [](ComposedNames \cap GateNames = {} => PmGated)
    /\ [][ComposedNames \cap GateNames = {} => PmStaysEnabled]_vars

C5_Witness ==
    /\ ComposedNames \cap GateNames = {}
    /\ call.op = "pm"
    /\ hist.activated
    /\ result.kind = "return"
    /\ result.val.cls = "PM"

\* C6: on a facade whose provider is a transport, isConnected, once
\* entered, returns the boolean the transport's probe answers, and returns
\* false when the probe fails to answer.
C6_ProbeFailureIsFalse ==
    (/\ call.op = "isConnected"
     /\ call.state = "done"
     /\ provider(w3).kind = "return"
     /\ provider(w3).val.kind = "provider") =>
        LET probe == ProviderIsConnected(provider(w3).val)
        IN /\ result.kind = "return"
           /\ probe.kind = "return" => result = probe
           /\ probe.kind = "raise" => result = Return(FALSE)

KeccakCalled == call.op = "keccak" /\ call.state = "done"

\* C7: keccak returns a digest only when exactly one of primitive, text,
\* hexstr is given and primitive is bytes, an integer or None; with both text
\* and hexstr, with none of the three, or with a primitive of another shape
\* it raises the invalid-input error (TypeError).
C7_KeccakInputShape ==
    KeccakCalled =>
        LET primitive == call.args[1]
            text == call.args[2]
            hexstr == call.args[3]
            given == {i \in 1..3 : call.args[i] # None}
            shapeOk == primitive.kind \in {"bytes", "int", "bool", "None"}
        IN /\ IsDigest(result) => (Cardinality(given) = 1 /\ shapeOk)
           /\ ((text # None /\ hexstr # None) \/ given = {} \/ ~shapeOk)
                  => result = Raise("TypeError")

C7_Witness ==
    /\ KeccakCalled
    /\ call.args[1] = PyStr(TextAbc)
    /\ call.args[2] = None
    /\ call.args[3] = None
    /\ result = Raise("TypeError")

\* The facade's own dictionary holds a keccak, in front of Web3.keccak.
KeccakShadowed == "keccak" \in DOMAIN w3.attrs

\* C8: called on an instance, solidityKeccak normalizes with that instance's
\* resolver: a name in an address position becomes what ens resolves it to,
\* a failure to resolve is raised, every other value is unchanged.  Called
\* on the class it asks no resolver, hands every value to the encoder
\* unchanged and does not fail.
C8_ResolverOnlyWhenBound ==
    (HashCalled /\ Len(call.args[2]) = Len(call.args[3])) =>
        LET abi_types == call.args[2]
            values == call.args[3]
            norm == result.normalized
            resolved(i) == /\ abi_types[i] = "address"
                           /\ values[i].kind = "name"
                           /\ ens(w3) # None
        IN IF call.args[1]
           THEN /\ \A i \in 1..Len(norm) :
                     IF resolved(i)
                     THEN Resolve(ens(w3), values[i].v) = Return(norm[i])
                     ELSE norm[i] = values[i]
                /\ IF Len(norm) < Len(values)
                   THEN /\ resolved(Len(norm) + 1)
                        /\ Resolve(ens(w3), values[Len(norm) + 1].v).kind = "raise"
                        /\ result.out = Resolve(ens(w3), values[Len(norm) + 1].v)
                   ELSE IF KeccakShadowed THEN result.out = Raise("TypeError")
                        ELSE IsDigest(result.out)
                /\ Len(result.asked) =
                      Cardinality({i \in 1..Len(values) :
                                      i <= Len(norm) + 1 /\ resolved(i)})
           ELSE /\ Len(result.asked) = 0
                /\ norm = values
                /\ result.encoded = [i \in 1..Len(values) |-> <<abi_types[i], values[i]>>]
                /\ IsDigest(result.out)

C8_Witness ==
    /\ HashCalled
    /\ call.args[1] = TRUE
    /\ w3.attrs["_ens"] = Resolver("ensA")
    /\ call.args[2] = <<"address">>
    /\ call.args[3] = <<PyName(NameB)>>
    /\ result.normalized = <<PyAddress(258)>>
    /\ IsDigest(result.out)

\* The encoder was given the pairs (type i, normalized value i) in order and
\* the call returned keccak of the concatenation, in that order and with
\* nothing added, of the packed encodings of those pairs.
HashedInOrder ==
    LET abi_types == call.args[2]
        norm == result.normalized
        buffer == Concat([i \in 1..Len(abi_types) |-> PackedBytes(abi_types[i], norm[i])])
    IN /\ result.encoded = [i \in 1..Len(abi_types) |-> <<abi_types[i], norm[i]>>]
       /\ result.out = Return(eth_utils_keccak(buffer))
       /\ (abi_types = <<"uint8">> /\ call.args[3] = <<PyInt(5)>>)
              => result.out.val.v = <<5>>

\* C9 as stated: for lists of one length whose values normalize, on the
\* class or on any instance, the result is keccak of the concatenation in
\* input order of the packed encodings of the pairs (type i, normalized
\* value i); for ['uint8'], [5] that buffer is the byte 0x05.
C9_HashesConcatenationInOrder ==
    (/\ HashCalled
     /\ Len(call.args[2]) = Len(call.args[3])
     /\ Len(result.normalized) = Len(call.args[2])) => HashedInOrder

\* C9, amended: the same, for a call on the class or on an instance whose
\* keccak is the one class Web3 defines (its own dictionary holds no keccak).
C9_UnshadowedHashesConcatenationInOrder ==
    (/\ HashCalled
     /\ Len(call.args[2]) = Len(call.args[3])
     /\ Len(result.normalized) = Len(call.args[2])
     /\ call.args[1] => ~KeccakShadowed) => HashedInOrder

C9_Witness ==
    /\ HashCalled
    /\ call.args[1] = TRUE
    /\ ~KeccakShadowed
    /\ call.args[2] = <<"uint16", "uint8">>
    /\ call.args[3] = <<PyInt(258), PyInt(5)>>
    /\ IsDigest(result.out)
    /\ result.out.val.v = <<1, 2, 5>>

\* C10: while no resolver was ever given, the stored resolver stays the
\* empty sentinel and a read returns the default resolver built for the
\* facade; once a value was given, None included, at construction or by the
\* setter, a read returns exactly the value last given and not the default.
C10_ResolverThreeStates ==
    /\ hist.ens = empty =>
          (w3.attrs["_ens"] = empty /\ ens(w3) = ENS_fromWeb3(w3))
    /\ hist.ens # empty =>
          (ens(w3) = hist.ens /\ ens(w3) # ENS_fromWeb3(w3))
    /\ call.op = "ens" =>
          result = Return(IF hist.ens = empty THEN ENS_fromWeb3(w3) ELSE hist.ens)

C10_Witness ==
    /\ call.op = "ens"
    /\ hist.ens = None
    /\ result = Return(None)

====
